---- MODULE Spec2Model ----
(***************************************************************************)
(* Supervision engine of zuzjs-pm: one worker name, its ProcessManager     *)
(* registry entry, its ProcessStore record, the child processes that were  *)
(* spawned for it, and the timers, promises and suspended async functions  *)
(* that act on it.  Every action is one run-to-completion step of the      *)
(* node event loop: a handler from its entry (or from the `await` it was   *)
(* suspended at) to its next `await` or its return.                        *)
(***************************************************************************)
EXTENDS Integers, FiniteSets, Sequences, TLC

(* ------------------------------ bounds --------------------------------- *)
MaxAlive    == 3   \* live child processes the host lets the daemon have
MaxTimers   == 2   \* pending restart timers
MaxStab     == 2   \* pending stability timers
MaxOps      == 2   \* stop()/restart()/delete() calls suspended at an await
MaxSpawning == 1   \* spawnAll() calls suspended in freePort
MaxCmds     == 3   \* operator commands in one behaviour
MaxStartDelete == 4   \* commands in a behaviour of starts and deletes only
MaxBeforeShutdown == 2   \* commands before the daemon is told to shut down
MaxLines    == 2   \* command lines a client sends on the connection observed
MaxBytes    == 4   \* bytes a client sends on the connection observed
MaxExits    == 3   \* child exit events in one behaviour
MaxScript   == 1   \* times the script file appears or disappears
MaxRestarts == 2   \* crashes are explored while restartCount is below this
Instances   == 2   \* cfg.instances of the configurations explored
FairExits   == 1   \* child exit events in one behaviour of SpecFair
MaxDaemons  == 3   \* daemon processes started on the machine
MaxClients  == 2   \* clients that call ensureDaemon
Threshold   == 2   \* probe.failureThreshold of the probes explored
MaxTicks    == 3   \* ticks of probe intervals in one behaviour
MaxProbes   == 2   \* probe intervals that are active at once
MaxFileEvents == 3 \* events of the file watcher in one behaviour

(* ------------------------ program constants ---------------------------- *)
DEFAULT_KILL_TIMEOUT == 5000
DEFAULT_MAX_BACKOFF  == 16000
INIT_BACKOFF         == 1000
STABILITY_WINDOW     == 5000
STOP_TIMEOUT         == 10000
KILL_SETTLE          == 100
FAST_FAIL            == 1500

(* WorkerStatus *)
Stopped  == "stopped"
Starting == "starting"
Running  == "running"
Stopping == "stopping"
Crashed  == "crashed"
Errored  == "errored"
Undefined == "undefined"   \* the status of a record that has no status field

(* WorkerMode *)
Fork    == "fork"
Cluster == "cluster"

Name    == "api"           \* the worker name under study
NaN     == -1              \* a number field that is undefined or NaN
NoTimer == 0               \* a timer field that is null or undefined
Fired   == -1              \* a timer field holding a Timeout that has fired
NullCode == -1             \* exit code null (the child died from a signal)

Fields == {"children", "status", "restartCount", "backoffTime",
           "restartTimer", "stabilityTimer", "isRestarting",
           "probeTimer", "probeFailures"}

VARIABLES
  cfg,          \* the WorkerConfig every start command carries
  scriptExists, \* fs.existsSync(cfg.scriptPath)
  workers,      \* ProcessManager.workers: the registered names
  store,        \* processStore.map: name -> ManagedProcess
  alive,        \* children whose exit event has not been delivered yet
  killed,       \* children of `alive` that were sent SIGKILL
  timers,       \* pending restart timers, each with the values it captured
  stab,         \* pending stability timers
  ops,          \* stop()/restart()/delete() calls suspended at their await
  spawning,     \* number of spawnAll() calls suspended in freePort
  starting,     \* how many of them ProcessManager.start awaits: for a worker
                \* it has just registered (new), for one it re-uses (old)
  snapshot,     \* the snapshot file: the JSON texts of the saved configurations
  daemon,       \* the daemon process: up, in shutdown(), exited, or booted again
  conn,         \* a client connection: whether it is open, the bytes sent
                \* and still to arrive, those that arrived, its buf, the
                \* lines handled, the data listeners on child streams and
                \* the activeListeners of its `logs` subscriptions
  probe,        \* liveness probing: the intervals that are active, the
                \* ticks suspended in runProbe, each with the probeFailures
                \* it read, the dead results in a row since the worker was
                \* last started or restarted, and the ticks so far
  watch,        \* dev mode: whether the Worker has a file watcher, its
                \* isBuilding latch, the reload handlers suspended at their
                \* import, the reload commands running, and the events so far
  host,         \* the machine: every daemon process started with its
                \* position in main(), the daemon that bound the socket
                \* file, the pid in the PID file, and every client's
                \* position in ensureDaemon
  inData,       \* the current macrotask is a socket data handler
  ncmd,         \* operator commands received so far
  nexit,        \* child exit events delivered so far
  nscript,      \* changes of the script file so far
  ev            \* the step just taken (observation only)

vars == <<cfg, scriptExists, workers, store, alive, killed, timers, stab,
          ops, spawning, starting, snapshot, daemon, conn, probe, watch,
          host, inData, ncmd, nexit, nscript, ev>>

(* --------------------------- configurations ---------------------------- *)
\* cfg.probe of a configuration without a liveness probe
NoProbe == [type |-> "undefined"]

Config(mode, port, maxBackoff, killTimeout) ==
  [mode |-> mode, instances |-> Instances, port |-> port,
   maxBackoff |-> maxBackoff, killTimeout |-> killTimeout,
   probe |-> NoProbe, devMode |-> FALSE, reloadCommand |-> FALSE]

Configs ==
  { Config(Fork,    FALSE, 2000, DEFAULT_KILL_TIMEOUT),
    Config(Cluster, FALSE, 500,  DEFAULT_KILL_TIMEOUT),
    Config(Fork,    TRUE,  2000, 15000) }

\* a LivenessProbeConfig
LivenessProbe(intervalSeconds, timeoutSeconds) ==
  [type |-> "http", intervalSeconds |-> intervalSeconds,
   timeoutSeconds |-> timeoutSeconds, failureThreshold |-> Threshold]

\* configurations with a probe: the default interval and timeout, and a
\* timeout longer than the interval
ProbeConfigs ==
  { [Config(Fork, FALSE, 2000, DEFAULT_KILL_TIMEOUT) EXCEPT !.probe = LivenessProbe(i, 5)] :
      i \in {10, 1} }

\* configurations in dev mode, with and without a reloadCommand
WatchConfigs ==
  { [Config(Fork, FALSE, 2000, DEFAULT_KILL_TIMEOUT)
       EXCEPT !.devMode = TRUE, !.reloadCommand = r] : r \in BOOLEAN }

\* a Worker as constructed: watcher null, isBuilding false
NoWatcher == [on |-> FALSE, isBuilding |-> FALSE, importing |-> 0,
              builds |-> 0, n |-> 0]

\* the machine as the other specifications see it: the daemon that serves
\* the socket, its pid in the PID file, and no client in ensureDaemon
OneDaemon ==
  [proc |-> [d \in 1..MaxDaemons |-> IF d = 1 THEN "serving" ELSE "none"],
   sock |-> 1, pidFile |-> 1, client |-> [c \in 1..MaxClients |-> "done"]]

\* no probe interval is active and no tick has run
NoProbing == [timers |-> {}, ticks |-> {}, run |-> 0, n |-> 0]

(* ------------------------------ helpers -------------------------------- *)
Min(a, b) == IF a <= b THEN a ELSE b

IsNum(x) == x >= 0

\* JS x + 1 and x * 2: NaN stays NaN
Plus1(x)  == IF IsNum(x) THEN x + 1 ELSE NaN
Times2(x) == IF IsNum(x) THEN x * 2 ELSE NaN
\* Math.min(a, b) with a possibly NaN
MathMin(a, b) == IF IsNum(a) THEN Min(a, b) ELSE NaN

\* smallest positive id not in `used`
FreshId(used) == CHOOSE i \in 1..(Cardinality(used) + 1) : i \notin used

(* ------------------------------- store --------------------------------- *)
\* The part of the program state that the Worker's methods read and write.
Cur == [store |-> store, alive |-> alive, timers |-> timers, stab |-> stab,
        spawning |-> spawning, workers |-> workers, starting |-> starting,
        snapshot |-> snapshot, daemon |-> daemon, conn |-> conn,
        probe |-> probe, watch |-> watch]

\* an object with no own property: every field reads as undefined
Blank == [children |-> {}, status |-> Undefined, restartCount |-> NaN,
          backoffTime |-> NaN, restartTimer |-> NoTimer,
          stabilityTimer |-> NoTimer, isRestarting |-> FALSE,
          probeTimer |-> NoTimer, probeFailures |-> NaN, own |-> {}]

\* Worker.initStore
initStore ==
  [children |-> {}, status |-> Stopped, restartCount |-> 0,
   backoffTime |-> INIT_BACKOFF, restartTimer |-> NoTimer,
   stabilityTimer |-> NoTimer, isRestarting |-> FALSE,
   probeTimer |-> NoTimer, probeFailures |-> 0, own |-> Fields]

Has(S) == Name \in DOMAIN S.store
\* Worker.mp(): processStore.get(name), undefined when there is no record
mp(S)  == IF Has(S) THEN S.store[Name] ELSE Blank

\* Worker.patch throws a TypeError when it reads current.status of undefined
patchThrows(S, p) == ~Has(S) /\ "status" \in DOMAIN p

\* Worker.patch: processStore.set(name, {...current, ...partial})
patch(S, p) ==
  LET cur == mp(S)
      new == [f \in Fields \cup {"own"} |->
                IF f = "own" THEN cur.own \cup DOMAIN p
                ELSE IF f \in DOMAIN p THEN p[f] ELSE cur[f]]
  IN  [S EXCEPT !.store = [n \in {Name} |-> new]]

\* the Timeout objects that are still pending
TimerIds(S) == {t.id : t \in S.timers} \cup S.stab

\* a timer has fired: a field that holds its Timeout now holds a spent one
\* (clearTimeout of it does nothing)
Spend(S, id) ==
  IF ~Has(S) THEN S
  ELSE [S EXCEPT !.store[Name].restartTimer =
                    IF @ = id THEN Fired ELSE @,
                 !.store[Name].stabilityTimer =
                    IF @ = id THEN Fired ELSE @]

\* Worker.clearTimers
clearTimers(S) ==
  LET m  == mp(S)
      S1 == [S EXCEPT !.timers = {t \in S.timers : t.id # m.restartTimer},
                      !.stab   = S.stab \ {m.stabilityTimer}]
  IN  patch(S1, [restartTimer |-> NoTimer, stabilityTimer |-> NoTimer])

\* Worker.scheduleRestart: the callback keeps the mp read here
scheduleRestart(S) ==
  LET m  == mp(S)
      id == FreshId(TimerIds(S))
      S1 == [S EXCEPT !.timers = S.timers \cup
               {[id |-> id, rc |-> m.restartCount, backoff |-> m.backoffTime]}]
  IN  patch(S1, [restartTimer |-> id])

\* Worker.startProbe: setInterval(tick, intervalMs)
startProbe(S) ==
  LET id == FreshId(S.probe.timers)
  IN  patch([S EXCEPT !.probe.timers = @ \cup {id}, !.probe.run = 0],
            [probeTimer |-> id])

\* Worker.stopProbe
stopProbe(S) ==
  LET m == mp(S)
  IN  IF m.probeTimer # NoTimer
      THEN patch([S EXCEPT !.probe.timers = @ \ {m.probeTimer}],
                 [probeTimer |-> NoTimer, probeFailures |-> 0])
      ELSE S

\* number of slots spawnAll loops over
InstanceCount == IF cfg.mode = Cluster THEN cfg.instances ELSE 1

\* the children forked by n successful forkChild calls
NewKids(S, n) ==
  LET cand == (1..(Cardinality(S.alive) + n)) \ S.alive
  IN  {i \in cand : Cardinality({j \in cand : j < i}) < n}

\* a variant of the fork loop that never records the children it forked
spawnAllForksUntracked(S, n) ==
  LET kids == NewKids(S, n)
      S1   == [S EXCEPT !.alive = S.alive \cup kids]
  IN  IF n = 0
      THEN IF patchThrows(S, [status |-> Stopped]) THEN S
           ELSE patch(S, [status |-> Stopped])
      ELSE IF patchThrows(S1, [status |-> Running]) THEN S1
      ELSE LET S2 == patch(S1, [status |-> Running])
               id == FreshId(TimerIds(S2))
               S3 == [S2 EXCEPT !.stab = S2.stab \cup {id}]
               S4 == patch(S3, [stabilityTimer |-> id])
           IN  IF cfg.probe # NoProbe THEN startProbe(S4) ELSE S4

\* Worker.spawnAll after `if (this.cfg.port) await freePort(...)`
spawnAllForks(S, n) ==
  LET kids == NewKids(S, n)
      S1   == [S EXCEPT !.alive = S.alive \cup kids]
  IN  IF n = 0
      THEN IF patchThrows(S, [status |-> Stopped]) THEN S
           ELSE patch(S, [status |-> Stopped])
      ELSE IF patchThrows(S1, [status |-> Running]) THEN S1
      ELSE LET S2 == patch(S1, [children |-> kids, status |-> Running])
               id == FreshId(TimerIds(S2))
               S3 == [S2 EXCEPT !.stab = S2.stab \cup {id}]
               S4 == patch(S3, [stabilityTimer |-> id])
           IN  IF cfg.probe # NoProbe THEN startProbe(S4) ELSE S4

\* a variant of spawnAll that forks without looking for the script
spawnAllUnchecked(S, n) ==
  IF cfg.port THEN [S EXCEPT !.spawning = S.spawning + 1]
  ELSE spawnAllForks(S, n)

\* Worker.spawnAll up to its first await (or to its return without a port)
spawnAll(S, n) ==
  IF ~scriptExists
  THEN IF patchThrows(S, [status |-> Errored]) THEN S
       ELSE patch(S, [status |-> Errored])
  ELSE IF cfg.port THEN [S EXCEPT !.spawning = S.spawning + 1]
  ELSE spawnAllForks(S, n)

\* Worker.onChildExit
\* a variant that gives up on a child that dies within FAST_FAIL of its spawn:
\* it marks the worker Crashed and schedules nothing
onChildExitFastFail(S, child, code, uptime, n) ==
  LET m == mp(S) IN
  IF "children" \notin m.own THEN S
  ELSE
    LET remaining == m.children \ {child}
        S1 == patch(S, [children |-> remaining])
    IN  IF m.status = Stopping THEN S1
        ELSE IF m.isRestarting
        THEN IF remaining = {}
             THEN spawnAll(patch(S1, [isRestarting |-> FALSE]), n)
             ELSE S1
        ELSE IF code # 0 /\ code # NullCode
        THEN IF uptime < FAST_FAIL
             THEN patch(S1, [status |-> Crashed])
             ELSE scheduleRestart(patch(S1, [status |-> Crashed]))
        ELSE S1

onChildExit(S, child, code, uptime, n) ==
  LET m == mp(S) IN
  IF "children" \notin m.own THEN S      \* TypeError on mp.children.filter
  ELSE
    LET remaining == m.children \ {child}
        S1 == patch(S, [children |-> remaining])
    IN  IF m.status = Stopping THEN S1
        ELSE IF m.isRestarting
        THEN IF remaining = {}
             THEN spawnAll(patch(S1, [isRestarting |-> FALSE]), n)
             ELSE S1
        ELSE IF code # 0 /\ code # NullCode
        THEN scheduleRestart(patch(S1, [status |-> Crashed]))
        ELSE S1

\* onChildExit reaches its spawnAll call
Respawns(S, child) ==
  /\ "children" \in mp(S).own
  /\ mp(S).status # Stopping
  /\ mp(S).isRestarting
  /\ mp(S).children \ {child} = {}

\* how many of the forkChild calls of one spawnAll succeed
ForkOutcomes(spawns) == IF spawns THEN 0..InstanceCount ELSE {0}

\* Worker.stopWatcher
stopWatcher(S) == [S EXCEPT !.watch.on = FALSE]

\* Worker.watchFiles: the watcher is replaced by a new one
watchFiles(S) == [stopWatcher(S) EXCEPT !.watch.on = TRUE]

\* Worker.start; with devMode the watcher is set up once spawnAll has
\* returned
start(S, n) ==
  LET m == mp(S) IN
  IF m.status = Running \/ m.status = Starting THEN S
  ELSE LET S1 == patch(S, [status |-> Starting, isRestarting |-> FALSE,
                            children |-> {}, restartCount |-> 0,
                            backoffTime |-> INIT_BACKOFF,
                            probeFailures |-> 0])
           S2 == spawnAll(stopProbe(clearTimers(S1)), n)
       IN  IF cfg.devMode /\ S2.spawning = S.spawning THEN watchFiles(S2)
           ELSE S2

\* Worker.getConfig: the configuration the worker was registered with
getConfig(name) == cfg

\* ProcessManager.getAllConfigs
getAllConfigs(S) == {getConfig(w) : w \in S.workers}

\* JSON.stringify of a configuration: the text lists its properties, each
\* with its value
stringify(c) == {<<k, c[k]>> : k \in DOMAIN c}

\* JSON.parse of such a text
parse(t) == [k \in {p[1] : p \in t} |-> (CHOOSE p \in t : p[1] = k)[2]]

\* ProcessManager.saveSnapshot
saveSnapshot(S) ==
  [S EXCEPT !.snapshot = {stringify(c) : c \in getAllConfigs(S)}]

\* ProcessManager.start awaits worker.start(): the call is suspended with
\* spawnAll in freePort, or it has returned
Awaited(S0, S1, kind) ==
  IF S1.spawning > S0.spawning
  THEN [S1 EXCEPT !.starting[kind] = S1.starting[kind] + 1]
  ELSE IF kind = "new" THEN saveSnapshot(S1) ELSE S1

\* a variant of ProcessManager.start that replaces a worker in a terminal
\* state by a new Worker instead of re-using it
pmStartFresh(S, n) ==
  IF Name \in S.workers /\ mp(S).status \notin {Stopped, Crashed, Errored}
  THEN S
  ELSE Awaited(S, start([S EXCEPT !.workers = S.workers \cup {Name},
                                  !.store = [k \in {Name} |-> initStore]], n),
               "new")

\* ProcessManager.start
pmStart(S, n) ==
  IF Name \in S.workers
  THEN IF mp(S).status \in {Stopped, Crashed, Errored}
       THEN Awaited(S, start(S, n), "old")
       ELSE S
  ELSE Awaited(S, start([S EXCEPT !.workers = S.workers \cup {Name},
                                  !.store = [k \in {Name} |-> initStore]], n),
               "new")

(* --------------------------- event loop -------------------------------- *)
\* an awaited promise of a suspended call has settled: its continuation is
\* a queued microtask
\* a variant of stop() that awaits the kills without the safety timeout
ReadyNoTimeout(o) == o.wait = {}

Ready(o) == o.wait = {} \/ o.timedOut

\* timers, child events and I/O completions are macrotasks: they run only
\* when no microtask is queued
NoMicro == \A o \in ops : ~Ready(o)

\* a command line is handled at the start of a data macrotask, or right
\* after the previous line of the same chunk
CanCommand == NoMicro \/ inData

Within(S, O) ==
  /\ Cardinality(S.alive) <= MaxAlive
  /\ Cardinality(S.timers) <= MaxTimers
  /\ Cardinality(S.stab) <= MaxStab
  /\ Cardinality(O) <= MaxOps
  /\ S.spawning <= MaxSpawning
  /\ Cardinality(S.probe.timers) <= MaxProbes
  /\ \A t \in S.timers : t.rc < MaxRestarts

Apply(S, O) ==
  /\ Within(S, O)
  /\ store' = S.store /\ alive' = S.alive /\ timers' = S.timers
  /\ killed' = killed \cap S.alive
  /\ stab' = S.stab /\ spawning' = S.spawning /\ workers' = S.workers
  /\ starting' = S.starting /\ snapshot' = S.snapshot
  /\ daemon' = S.daemon /\ conn' = S.conn /\ probe' = S.probe
  /\ watch' = S.watch
  /\ ops' = O
  /\ UNCHANGED <<cfg, host>>

\* gracefulKill(c, killTimeout) for every c of mp.children: the promise is
\* pending unless process.kill(pid, "SIGTERM") throws (process gone)
gracefulKill(S, kids) == {c \in kids : c \in S.alive}

\* a call suspended at its await: the kills it waits for, whether its safety
\* timer has fired, whether Worker.stop returned at once, and the status the
\* worker had when the call was made
NewOp(kind, wait, early) ==
  [kind |-> kind, wait |-> wait, timedOut |-> FALSE, early |-> early,
   pre |-> mp(Cur).status,
   dup |-> FreshId({o.dup : o \in {q \in ops : q.kind = kind}})]

\* Worker.stop up to `await Promise.race(...)`
stopBegin(S) ==
  stopWatcher(stopProbe(clearTimers(
    patch(S, [status |-> Stopping, isRestarting |-> FALSE]))))

\* Worker.stop after the await
stopEnd(S) == stopWatcher(patch(S, [children |-> {}, status |-> Stopped]))

\* Worker.restart up to `await Promise.all(...)`
restartBegin(S) ==
  stopProbe(clearTimers(patch(S, [isRestarting |-> TRUE, status |-> Stopping])))

\* Worker.restart after the await
restartEnd(S) == patch(S, [isRestarting |-> FALSE, children |-> {}])

ExitCodes == {0, 1, NullCode}
ExitEv(code) == IF code = 0 THEN "exit0" ELSE IF code = NullCode THEN "exitNull"
                ELSE "exitFail"
Uptimes   == {1000, 2000}

(* ------------------------------ actions -------------------------------- *)
\* handleMessage "start" -> ProcessManager.start(config)
CmdStart ==
  /\ CanCommand
  /\ \E n \in 0..InstanceCount :
       Apply(pmStart(Cur, n), ops)
  /\ inData' = TRUE
  /\ ncmd' = ncmd + 1
  /\ UNCHANGED nexit
  /\ ev' = IF Name \notin workers
           THEN IF scriptExists /\ cfg.port THEN "startPending" ELSE "start"
           ELSE IF mp(Cur).status \notin {Stopped, Crashed, Errored}
           THEN "startIgnored"
           ELSE IF scriptExists /\ cfg.port THEN "resumePending" ELSE "resume"
  /\ UNCHANGED <<scriptExists, nscript>>

\* handleMessage "stop" -> ProcessManager.stop(name) -> Worker.stop
CmdStop ==
  /\ CanCommand
  /\ IF Name \notin workers
     THEN /\ Apply(Cur, ops)
          /\ ev' = "stopUnknown"
     ELSE IF mp(Cur).status = Stopping
     THEN /\ Apply(saveSnapshot(Cur), ops)
          /\ ev' = "stopEarly"
     ELSE /\ Apply(stopBegin(Cur),
                   ops \cup {NewOp("stop", gracefulKill(Cur, mp(Cur).children), FALSE)})
          /\ ev' = "stop"
  /\ inData' = TRUE
  /\ ncmd' = ncmd + 1
  /\ UNCHANGED nexit
  /\ UNCHANGED <<scriptExists, nscript>>

\* handleMessage "restart" -> ProcessManager.restart(name) -> Worker.restart
CmdRestart ==
  /\ CanCommand
  /\ IF Name \notin workers
     THEN /\ Apply(Cur, ops)
          /\ ev' = "restartUnknown"
     ELSE IF mp(Cur).isRestarting
     THEN /\ Apply(saveSnapshot(Cur), ops)
          /\ ev' = "restartEarly"
     ELSE /\ Apply(restartBegin(Cur),
                   ops \cup {NewOp("restart", gracefulKill(Cur, mp(Cur).children), FALSE)})
          /\ ev' = "restart"
  /\ inData' = TRUE
  /\ ncmd' = ncmd + 1
  /\ UNCHANGED nexit
  /\ UNCHANGED <<scriptExists, nscript>>

\* handleMessage "delete" -> ProcessManager.delete(name), up to the await
CmdDelete ==
  /\ CanCommand
  /\ IF Name \notin workers
     THEN /\ Apply(Cur, ops)
          /\ ev' = "deleteUnknown"
     ELSE IF mp(Cur).status = Stopping
     THEN /\ Apply(Cur, ops \cup {NewOp("delete", {}, TRUE)})
          /\ ev' = "delete"
     ELSE /\ Apply(stopBegin(Cur),
                   ops \cup {NewOp("delete", gracefulKill(Cur, mp(Cur).children), FALSE)})
          /\ ev' = "delete"
  /\ inData' = TRUE
  /\ ncmd' = ncmd + 1
  /\ UNCHANGED nexit
  /\ UNCHANGED <<scriptExists, nscript>>

\* handleMessage "stats" -> ProcessManager.getStats(name)
CmdStats ==
  /\ CanCommand
  /\ Apply(Cur, ops)
  /\ ev' = IF Name \in workers THEN "stats" ELSE "statsUnknown"
  /\ inData' = TRUE
  /\ ncmd' = ncmd + 1
  /\ UNCHANGED nexit
  /\ UNCHANGED <<scriptExists, nscript>>

\* the continuation of a suspended stop(), restart() or delete()
OpFinish(o) ==
  /\ o \in ops
  /\ o.kind \in {"stop", "restart", "delete"}
  /\ Ready(o)
  /\ LET S == Cur
         O == ops \ {o}
     IN CASE o.kind = "stop" ->
               IF patchThrows(S, [status |-> Stopped])
               THEN Apply(S, O) /\ ev' = "stopThrow"
               ELSE Apply(saveSnapshot(stopEnd(S)), O) /\ ev' = "stopReturn"
          [] o.kind = "restart" ->
               Apply(saveSnapshot(restartEnd(S)), O) /\ ev' = "restartReturn"
          [] o.kind = "delete" ->
               IF ~o.early /\ patchThrows(S, [status |-> Stopped])
               THEN Apply(S, O) /\ ev' = "deleteThrow"
               ELSE LET S1 == IF o.early THEN S ELSE stopEnd(S)
                    IN  /\ Apply(saveSnapshot(
                                [S1 EXCEPT !.workers = S1.workers \ {Name},
                                           !.store = << >>]), O)
                        /\ ev' = "deleteReturn"
  /\ inData' = FALSE
  /\ UNCHANGED <<ncmd, nexit>>
  /\ UNCHANGED <<scriptExists, nscript>>

\* the "exit" event of a child: Worker.onChildExit, then the cleanup of
\* every gracefulKill waiting for this child
ChildExit(c, code, uptime) ==
  /\ NoMicro
  /\ nexit < MaxExits
  /\ c \in alive
  /\ c \in killed => code = NullCode      \* SIGKILL leaves no exit code
  /\ \E n \in ForkOutcomes(Respawns(Cur, c)) :
       LET S == onChildExit(Cur, c, code, uptime, n)
       IN  Apply([S EXCEPT !.alive = S.alive \ {c}],
                 {[o EXCEPT !.wait = o.wait \ {c}] : o \in ops})
  /\ inData' = FALSE
  /\ UNCHANGED ncmd /\ nexit' = nexit + 1
  /\ ev' = ExitEv(code)
  /\ UNCHANGED <<scriptExists, nscript>>


\* the killer timer of gracefulKill: SIGKILL after killTimeout, cleanup
\* KILL_SETTLE ms later, whether or not the exit event has come
Escalate(o, c) ==
  /\ NoMicro
  /\ o \in ops
  /\ c \in o.wait
  /\ o.kind \in {"restart", "probeRestart", "watchRestart"}
       \/ cfg.killTimeout + KILL_SETTLE <= STOP_TIMEOUT
  /\ Within(Cur, ops)
  /\ ops' = (ops \ {o}) \cup {[o EXCEPT !.wait = o.wait \ {c}]}
  /\ killed' = killed \cup ({c} \cap alive)
  /\ UNCHANGED <<cfg, workers, store, alive, timers, stab, spawning,
                 starting, snapshot, daemon, conn, probe, watch, host>>
  /\ inData' = FALSE
  /\ UNCHANGED <<ncmd, nexit>>
  /\ ev' = "escalate"
  /\ UNCHANGED <<scriptExists, nscript>>

\* the 10 s safety timer of Worker.stop rejects the race
StopTimeout(o) ==
  /\ NoMicro
  /\ o \in ops
  /\ o.kind \in {"stop", "delete", "stopAll"}
  /\ o.wait # {}
  /\ cfg.killTimeout + KILL_SETTLE > STOP_TIMEOUT
  /\ Apply(Cur, (ops \ {o}) \cup {[o EXCEPT !.timedOut = TRUE]})
  /\ inData' = FALSE
  /\ UNCHANGED <<ncmd, nexit>>
  /\ ev' = "stopTimeout"
  /\ UNCHANGED <<scriptExists, nscript>>

\* the stability timer armed by spawnAll fires
\* a variant of the stability callback that forgets the backoff
stabilityFireKeepsBackoff(S) ==
  IF Has(S) /\ mp(S).status = Running
  THEN patch(S, [restartCount |-> 0])
  ELSE S

stabilityFire(S) ==
  IF Has(S) /\ mp(S).status = Running
  THEN patch(S, [backoffTime |-> INIT_BACKOFF, restartCount |-> 0])
  ELSE S

StabilityFire(id) ==
  /\ NoMicro
  /\ id \in stab
  /\ LET S == Cur
     IN  Apply(stabilityFire(Spend([S EXCEPT !.stab = S.stab \ {id}], id)), ops)
  /\ inData' = FALSE
  /\ UNCHANGED <<ncmd, nexit>>
  /\ ev' = "stability"
  /\ UNCHANGED <<scriptExists, nscript>>

\* the callback of the timer armed by scheduleRestart
restartFire(S, t, n) ==
  LET maxBack == cfg.maxBackoff
  IN  spawnAll(patch(S, [restartCount |-> Plus1(t.rc),
                         backoffTime  |-> MathMin(Times2(t.backoff), maxBack)]),
               n)

RestartTimerFire(t) ==
  /\ NoMicro
  /\ t \in timers
  /\ \E n \in 0..InstanceCount :
       LET S == Cur
       IN  Apply(restartFire(Spend([S EXCEPT !.timers = S.timers \ {t}], t.id),
                             t, n), ops)
  /\ inData' = FALSE
  /\ UNCHANGED <<ncmd, nexit>>
  /\ ev' = "restartTimer"
  /\ UNCHANGED <<scriptExists, nscript>>

\* freePort has settled: a suspended spawnAll goes on
SpawnResume ==
  /\ NoMicro
  /\ spawning > 0
  /\ \E n \in 0..InstanceCount, kind \in {"new", "old", "timer"} :
       LET S  == Cur
           S1 == spawnAllForks([S EXCEPT !.spawning = S.spawning - 1], n)
           S2 == [S1 EXCEPT !.starting[kind] = S1.starting[kind] - 1]
       IN  IF kind = "timer"
           THEN /\ spawning > starting["new"] + starting["old"]
                /\ Apply(S1, ops)
                /\ ev' = "spawnResume"
           ELSE /\ starting[kind] > 0
                /\ IF ~Has(S)
                   THEN Apply(S2, ops) /\ ev' = "startThrow"
                   ELSE /\ LET S3 == IF cfg.devMode THEN watchFiles(S2) ELSE S2
                            IN  Apply(IF kind = "new" THEN saveSnapshot(S3) ELSE S3,
                                      ops)
                        /\ ev' = "startReturn"
  /\ inData' = FALSE
  /\ UNCHANGED <<ncmd, nexit>>
  /\ UNCHANGED <<scriptExists, nscript>>

\* the script file is built or removed outside the daemon
ScriptChange ==
  /\ NoMicro
  /\ nscript < MaxScript
  /\ nscript' = nscript + 1
  /\ scriptExists' = ~scriptExists
  /\ inData' = FALSE
  /\ UNCHANGED <<ncmd, nexit>>
  /\ ev' = "script"
  /\ UNCHANGED <<cfg, workers, store, alive, killed, timers, stab, ops,
                 spawning, starting, snapshot, daemon, conn, probe, watch, host>>

\* the characters of the text a client sends: a letter, a space, a newline
\* and a letter outside ASCII
Chars == {"a", "sp", "nl", "eacute"}

\* UTF-8: the bytes socket.write sends for a character; "eacute" takes a
\* lead byte and a continuation byte
encode(ch) == IF ch = "eacute" THEN <<"C3", "A9">> ELSE <<ch>>

\* chunk.toString(): UTF-8 decoding of one Buffer; a lead byte without its
\* continuation byte, or a continuation byte on its own, decodes to U+FFFD
RECURSIVE toString(_)
toString(b) ==
  IF b = << >> THEN << >>
  ELSE IF Head(b) = "C3" /\ Len(b) >= 2 /\ b[2] = "A9"
  THEN <<"eacute">> \o toString(SubSeq(b, 3, Len(b)))
  ELSE IF Head(b) \in {"C3", "A9"}
  THEN <<"FFFD">> \o toString(Tail(b))
  ELSE <<Head(b)>> \o toString(Tail(b))

\* str.split("\n"): the segments between newlines, one more than newlines
RECURSIVE split(_)
split(str) ==
  IF \A i \in 1..Len(str) : str[i] # "nl" THEN <<str>>
  ELSE LET i == CHOOSE j \in 1..Len(str) :
                  str[j] = "nl" /\ \A k \in 1..(j - 1) : str[k] # "nl"
       IN  <<SubSeq(str, 1, i - 1)>> \o split(SubSeq(str, i + 1, Len(str)))

\* line.trim() is not empty
NotBlank(line) == \E i \in 1..Len(line) : line[i] # "sp"

\* the client writes one more character to the socket
Send(ch) ==
  /\ conn.open
  /\ Len(conn.got) + Len(conn.rest) + Len(encode(ch)) <= MaxBytes
  /\ Apply([Cur EXCEPT !.conn.rest = @ \o encode(ch)], ops)
  /\ ev' = "send"
  /\ UNCHANGED <<inData, ncmd, nexit>>
  /\ UNCHANGED <<scriptExists, nscript>>

\* the "data" handler of a connection for a chunk of k bytes: append the
\* decoded chunk to buf, split, keep the last fragment, pass every line that
\* is not blank to handleMessage (here: record it in lines)
Data(k) ==
  /\ NoMicro
  /\ conn.open
  /\ k \in 1..Len(conn.rest)
  /\ LET chunk == SubSeq(conn.rest, 1, k)
         segs  == split(conn.buf \o toString(chunk))
         lines == SubSeq(segs, 1, Len(segs) - 1)
     IN  Apply([Cur EXCEPT !.conn.rest = SubSeq(@, k + 1, Len(@)),
                           !.conn.got = @ \o chunk,
                           !.conn.buf = segs[Len(segs)],
                           !.conn.lines = @ \o SelectSeq(lines, NotBlank)],
               ops)
  /\ ev' = "data"
  /\ UNCHANGED <<inData, ncmd, nexit>>
  /\ UNCHANGED <<scriptExists, nscript>>

\* handleMessage for a line it answers without a call that changes state
Answer(e) ==
  /\ CanCommand
  /\ Apply(Cur, ops)
  /\ ev' = e
  /\ inData' = TRUE
  /\ ncmd' = ncmd + 1
  /\ UNCHANGED nexit
  /\ UNCHANGED <<scriptExists, nscript>>

\* a variant that ends the connection of a client that sent bad JSON
LineInvalidCloses ==
  /\ CanCommand
  /\ Apply([Cur EXCEPT !.conn.open = FALSE], ops)
  /\ ev' = "invalidJSON"
  /\ inData' = TRUE
  /\ ncmd' = ncmd + 1
  /\ UNCHANGED nexit
  /\ UNCHANGED <<scriptExists, nscript>>

\* handleMessage: JSON.parse(raw) throws
LineInvalid == Answer("invalidJSON")

\* handleMessage "ping"
CmdPing == Answer("ping")

\* handleMessage "list" -> ProcessManager.list()
CmdList == Answer("list")

\* handleMessage for a cmd that is no member of IPCCommand: the default case
\* throws
CmdUnknown == Answer("unknownCommand")

\* handleMessage "get-store": the switch has no case for it, so it reaches
\* the default case like any unknown cmd
CmdGetStore == Answer("getStore")

\* stdout and stderr of a child
Streams == {"stdout", "stderr"}

\* handleMessage "logs" where activeListeners records one child per worker
\* only
logsLastChild(S) ==
  LET kids == mp(S).children
      sub  == FreshId({a[1] : a \in S.conn.active})
      last == IF kids = {} THEN {} ELSE {CHOOSE c \in kids : TRUE}
  IN  [S EXCEPT !.conn.listeners = @ \cup {<<sub, c, st>> : c \in kids, st \in Streams},
                !.conn.active = @ \cup {<<sub, c>> : c \in last}]

\* handleMessage "logs" once workersToStream is not empty: onData is attached
\* to both streams of every child of mp.children and pushed on the
\* activeListeners of this subscription
logs(S) ==
  LET kids == mp(S).children
      sub  == FreshId({a[1] : a \in S.conn.active})
  IN  [S EXCEPT !.conn.listeners = @ \cup {<<sub, c, st>> : c \in kids, st \in Streams},
                !.conn.active = @ \cup {<<sub, c>> : c \in kids}]

\* handleMessage "logs", with cmd.name or without
CmdLogs(named) ==
  /\ CanCommand
  /\ IF named /\ Name \notin workers
     THEN Apply(Cur, ops) /\ ev' = "logsUnknown"
     ELSE IF workers = {}
     THEN Apply(Cur, ops) /\ ev' = "logsNone"
     ELSE Apply(logs(Cur), ops) /\ ev' = "logs"
  /\ inData' = TRUE
  /\ ncmd' = ncmd + 1
  /\ UNCHANGED nexit
  /\ UNCHANGED <<scriptExists, nscript>>

\* the "close" handlers registered by the `logs` subscriptions of the
\* connection: each takes its activeListeners off both streams
close(S) ==
  [S EXCEPT !.conn.open = FALSE,
            !.conn.listeners =
               @ \ {<<a[1], a[2], st>> : a \in S.conn.active, st \in Streams}]

\* the client disconnects: the socket emits "close"
Disconnect ==
  /\ NoMicro
  /\ conn.open
  /\ Apply(close(Cur), ops)
  /\ ev' = "close"
  /\ inData' = FALSE
  /\ UNCHANGED <<ncmd, nexit>>
  /\ UNCHANGED <<scriptExists, nscript>>

\* a probe interval fires: tick up to `await runProbe(probeCfg)`; the ticks
\* of one interval overlap only when a probe can take longer than the interval
ProbeTick(id) ==
  /\ NoMicro
  /\ id \in probe.timers
  /\ probe.n < MaxTicks
  /\ \/ \A t \in probe.ticks : t.timer # id
     \/ cfg.probe.timeoutSeconds > cfg.probe.intervalSeconds
  /\ LET S == [Cur EXCEPT !.probe.n = @ + 1]
         t == [id |-> FreshId({u.id : u \in probe.ticks}), timer |-> id,
               pf |-> mp(Cur).probeFailures]
     IN  IF mp(Cur).status # Running
         THEN Apply(S, ops) /\ ev' = "probeSkip"
         ELSE Apply([S EXCEPT !.probe.ticks = @ \cup {t}], ops)
              /\ ev' = "probeTick"
  /\ inData' = FALSE
  /\ UNCHANGED <<ncmd, nexit>>
  /\ UNCHANGED <<scriptExists, nscript>>

\* runProbe resolves: tick from the await to its return, or to the await of
\* restart(); mp is the record tick read before the await
ProbeResult(t, isAlive) ==
  /\ NoMicro
  /\ t \in probe.ticks
  /\ LET S0 == [Cur EXCEPT !.probe.ticks = @ \ {t}]
         failures == Plus1(t.pf)
         S1 == patch(S0, [probeFailures |-> failures])
         S2 == [patch(S1, [probeFailures |-> 0]) EXCEPT !.probe.run = 0]
     IN  IF isAlive
         THEN /\ Apply([(IF t.pf > 0 THEN patch(S0, [probeFailures |-> 0])
                         ELSE S0) EXCEPT !.probe.run = 0], ops)
              /\ ev' = "probeAlive"
         ELSE IF failures >= cfg.probe.failureThreshold
         THEN IF mp(S2).isRestarting
              THEN Apply(S2, ops) /\ ev' = "probeRestartEarly"
              ELSE /\ Apply(restartBegin(S2),
                            ops \cup {NewOp("probeRestart",
                                            gracefulKill(S2, mp(S2).children),
                                            FALSE)})
                   /\ ev' = "probeRestart"
         ELSE /\ Apply([S1 EXCEPT !.probe.run =
                           IF mp(Cur).status = Running THEN @ + 1 ELSE @], ops)
              /\ ev' = "probeDead"
  /\ inData' = FALSE
  /\ UNCHANGED <<ncmd, nexit>>
  /\ UNCHANGED <<scriptExists, nscript>>

\* tick after `await this.restart()`: Worker.restart after its await
ProbeRestartFinish(o) ==
  /\ o \in ops
  /\ o.kind = "probeRestart"
  /\ Ready(o)
  /\ Apply(restartEnd(Cur), ops \ {o})
  /\ ev' = "probeRestartReturn"
  /\ inData' = FALSE
  /\ UNCHANGED <<ncmd, nexit>>
  /\ UNCHANGED <<scriptExists, nscript>>

\* Worker.restart, called by the watcher, after its await
WatchRestartFinish(o) ==
  /\ o \in ops
  /\ o.kind = "watchRestart"
  /\ Ready(o)
  /\ Apply(restartEnd(Cur), ops \ {o})
  /\ ev' = "watchRestartReturn"
  /\ inData' = FALSE
  /\ UNCHANGED <<ncmd, nexit>>
  /\ UNCHANGED <<scriptExists, nscript>>

\* the events chokidar reports
FileEvents == {"change", "add", "unlink"}

\* this.restart() called by the watcher, S being the state it is called in:
\* Worker.restart up to its await; the promise is not awaited
WatcherRestarts(S, e) ==
  IF mp(S).isRestarting \/ patchThrows(S, [status |-> Stopping])
  THEN Apply(S, ops) /\ ev' = "watchRestartEarly"
  ELSE /\ Apply(restartBegin(S),
                ops \cup {NewOp("watchRestart",
                                gracefulKill(S, mp(S).children), FALSE)})
       /\ ev' = e

\* a variant of the watcher's handler without the isBuilding latch
FileEventUnlatched(event) ==
  /\ NoMicro
  /\ watch.on
  /\ watch.n < MaxFileEvents
  /\ LET S == [Cur EXCEPT !.watch.n = @ + 1]
     IN  IF event \notin {"change", "add"}
         THEN Apply(S, ops) /\ ev' = "fileOther"
         ELSE IF cfg.reloadCommand
         THEN /\ Apply([S EXCEPT !.watch.isBuilding = TRUE,
                                 !.watch.importing = @ + 1], ops)
              /\ ev' = "fileBuild"
         ELSE WatcherRestarts(S, "fileRestart")
  /\ inData' = FALSE
  /\ UNCHANGED <<ncmd, nexit>>
  /\ UNCHANGED <<scriptExists, nscript>>

\* the watcher's "all" handler, up to `await import(...)` or to its return
FileEvent(event) ==
  /\ NoMicro
  /\ watch.on
  /\ watch.n < MaxFileEvents
  /\ LET S == [Cur EXCEPT !.watch.n = @ + 1]
     IN  IF watch.isBuilding
         THEN Apply(S, ops) /\ ev' = "fileIgnored"
         ELSE IF event \notin {"change", "add"}
         THEN Apply(S, ops) /\ ev' = "fileOther"
         ELSE IF cfg.reloadCommand
         THEN /\ Apply([S EXCEPT !.watch.isBuilding = TRUE,
                                 !.watch.importing = @ + 1], ops)
              /\ ev' = "fileBuild"
         ELSE WatcherRestarts(S, "fileRestart")
  /\ inData' = FALSE
  /\ UNCHANGED <<ncmd, nexit>>
  /\ UNCHANGED <<scriptExists, nscript>>

\* the handler after `await import("node:child_process")`: exec starts the
\* reload command
BuildExec ==
  /\ NoMicro
  /\ watch.importing > 0
  /\ Apply([Cur EXCEPT !.watch.importing = @ - 1, !.watch.builds = @ + 1], ops)
  /\ ev' = "exec"
  /\ inData' = FALSE
  /\ UNCHANGED <<ncmd, nexit>>
  /\ UNCHANGED <<scriptExists, nscript>>

\* the callback of exec: the reload command has ended, with an error or not
BuildDone(err) ==
  /\ NoMicro
  /\ watch.builds > 0
  /\ LET S == [Cur EXCEPT !.watch.builds = @ - 1, !.watch.isBuilding = FALSE]
     IN  IF err
         THEN Apply(S, ops) /\ ev' = "buildFailed"
         ELSE WatcherRestarts(S, "buildRestart")
  /\ inData' = FALSE
  /\ UNCHANGED <<ncmd, nexit>>
  /\ UNCHANGED <<scriptExists, nscript>>

\* SIGINT or SIGTERM: shutdown() up to `await pm.stopAll()`, which calls
\* stop() on every registered worker
Shutdown ==
  /\ NoMicro
  /\ daemon = "up"
  /\ LET S0    == saveSnapshot([Cur EXCEPT !.daemon = "shutdown"])
         early == Name \notin workers \/ mp(Cur).status = Stopping
         wait  == IF early THEN {} ELSE gracefulKill(Cur, mp(Cur).children)
     IN  Apply(IF early THEN S0 ELSE stopBegin(S0),
               ops \cup {NewOp("stopAll", wait, early)})
  /\ inData' = FALSE
  /\ UNCHANGED <<ncmd, nexit>>
  /\ ev' = "shutdown"
  /\ UNCHANGED <<scriptExists, nscript>>

\* shutdown() after the await: the stop() calls have returned, stopAll saves
\* the snapshot and process.exit(0) ends the daemon with its registry, store,
\* timers and pending calls; a stop() that throws leaves shutdown() rejected
\* and the daemon running
Exit(o) ==
  /\ o \in ops
  /\ o.kind = "stopAll"
  /\ Ready(o)
  /\ IF ~o.early /\ patchThrows(Cur, [status |-> Stopped])
     THEN /\ Apply(Cur, ops \ {o})
          /\ ev' = "shutdownThrow"
     ELSE /\ snapshot' =
               saveSnapshot(IF o.early THEN Cur ELSE stopEnd(Cur)).snapshot
          /\ daemon' = "down"
          /\ workers' = {} /\ store' = << >>
          /\ alive' = {} /\ killed' = {}
          /\ timers' = {} /\ stab' = {} /\ ops' = {}
          /\ spawning' = 0 /\ starting' = [new |-> 0, old |-> 0]
          /\ probe' = NoProbing /\ watch' = NoWatcher
          /\ UNCHANGED host
          /\ UNCHANGED <<cfg, conn>>
          /\ ev' = "exit"
  /\ inData' = FALSE
  /\ UNCHANGED <<ncmd, nexit>>
  /\ UNCHANGED <<scriptExists, nscript>>

\* a variant of main() that does not read the snapshot file
BootEmpty ==
  /\ daemon = "down"
  /\ Apply([Cur EXCEPT !.daemon = "restored"], ops)
  /\ inData' = FALSE
  /\ UNCHANGED <<ncmd, nexit>>
  /\ ev' = "boot"
  /\ UNCHANGED <<scriptExists, nscript>>

\* main() of a new daemon process: every configuration read from the
\* snapshot file is passed to ProcessManager.start, not awaited
Boot ==
  /\ daemon = "down"
  /\ LET S == [Cur EXCEPT !.daemon = "restored"]
     IN  IF snapshot = {}
         THEN Apply(S, ops)
         ELSE \E t \in snapshot, n \in 0..InstanceCount :
                LET S1 == pmStart(S, n)
                IN  /\ Within(S1, ops)
                    /\ cfg' = parse(t)
                    /\ store' = S1.store /\ alive' = S1.alive
                    /\ timers' = S1.timers /\ killed' = killed \cap S1.alive
                    /\ stab' = S1.stab /\ spawning' = S1.spawning
                    /\ workers' = S1.workers /\ starting' = S1.starting
                    /\ snapshot' = S1.snapshot /\ daemon' = S1.daemon
                    /\ probe' = S1.probe /\ watch' = S1.watch
                    /\ UNCHANGED host
                    /\ UNCHANGED conn
                    /\ UNCHANGED ops
  /\ inData' = FALSE
  /\ UNCHANGED <<ncmd, nexit>>
  /\ ev' = "boot"
  /\ UNCHANGED <<scriptExists, nscript>>

(* --------------------------- specification ----------------------------- *)
\* a connection just accepted, on which the client sends no raw bytes
NoTraffic ==
  [open |-> TRUE, rest |-> << >>, got |-> << >>, buf |-> << >>,
   lines |-> << >>, listeners |-> {}, active |-> {}]

Init ==
  /\ cfg \in Configs
  /\ scriptExists \in BOOLEAN
  /\ workers = {}
  /\ store = << >>
  /\ alive = {}
  /\ killed = {}
  /\ timers = {}
  /\ stab = {}
  /\ ops = {}
  /\ spawning = 0
  /\ starting = [new |-> 0, old |-> 0]
  /\ snapshot = {}
  /\ daemon = "up"
  /\ conn = NoTraffic
  /\ probe = NoProbing
  /\ watch = NoWatcher
  /\ host = OneDaemon
  /\ inData = FALSE
  /\ ncmd = 0
  /\ nexit = 0
  /\ nscript = 0
  /\ ev = "init"

Next ==
  \/ ncmd < MaxCmds /\ CmdStart
  \/ ncmd < MaxCmds /\ CmdStop
  \/ ncmd < MaxCmds /\ CmdRestart
  \/ ncmd < MaxCmds /\ CmdDelete
  \/ ncmd < MaxCmds /\ CmdStats
  \/ \E o \in ops : OpFinish(o)
  \/ \E c \in alive, code \in ExitCodes, u \in Uptimes : ChildExit(c, code, u)
  \/ \E o \in ops : \E c \in o.wait : Escalate(o, c)
  \/ \E o \in ops : StopTimeout(o)
  \/ \E id \in stab : StabilityFire(id)
  \/ \E t \in timers : RestartTimerFire(t)
  \/ SpawnResume
  \/ ScriptChange

Spec == Init /\ [][Next]_vars

\* The event loop runs every queued microtask and fires every pending timer;
\* freePort settles.  Nothing obliges a child to exit or an operator to act.
Fairness ==
  /\ WF_vars(\E o \in ops : OpFinish(o))
  /\ WF_vars(\E o \in ops : \E c \in o.wait : Escalate(o, c))
  /\ WF_vars(\E o \in ops : StopTimeout(o))
  /\ WF_vars(\E id \in stab : StabilityFire(id))
  /\ WF_vars(\E t \in timers : RestartTimerFire(t))
  /\ WF_vars(SpawnResume)

\* The fair behaviours are explored with at most FairExits child exits.
NextFair == Next /\ nexit' <= FairExits

SpecFair == Init /\ [][NextFair]_vars /\ Fairness

\* a worker with a liveness probe: started and stopped by the operator,
\* probed, and restarted by its probe and after a crash
InitProbe ==
  /\ cfg \in ProbeConfigs
  /\ scriptExists \in BOOLEAN
  /\ workers = {}
  /\ store = << >>
  /\ alive = {}
  /\ killed = {}
  /\ timers = {}
  /\ stab = {}
  /\ ops = {}
  /\ spawning = 0
  /\ starting = [new |-> 0, old |-> 0]
  /\ snapshot = {}
  /\ daemon = "up"
  /\ conn = NoTraffic
  /\ probe = NoProbing
  /\ watch = NoWatcher
  /\ host = OneDaemon
  /\ inData = FALSE
  /\ ncmd = 0
  /\ nexit = 0
  /\ nscript = 0
  /\ ev = "init"

NextProbe ==
  \/ ncmd < MaxLines /\ CmdStart
  \/ ncmd < MaxLines /\ CmdStop
  \/ \E id \in probe.timers : ProbeTick(id)
  \/ \E t \in probe.ticks, isAlive \in BOOLEAN : ProbeResult(t, isAlive)
  \/ \E o \in ops : ProbeRestartFinish(o)
  \/ ScriptChange
  \/ /\ \/ \E o \in ops : OpFinish(o)
        \/ \E c \in alive, code \in ExitCodes, u \in Uptimes : ChildExit(c, code, u)
        \/ \E o \in ops : \E c \in o.wait : Escalate(o, c)
        \/ \E o \in ops : StopTimeout(o)
        \/ \E id \in stab : StabilityFire(id)
        \/ \E t \in timers : RestartTimerFire(t)
     /\ nexit' <= FairExits

SpecProbe == InitProbe /\ [][NextProbe]_vars

\* a worker in dev mode: started and stopped by the operator, restarted by
\* its file watcher, with at most FairExits child exits
InitWatch ==
  /\ cfg \in WatchConfigs
  /\ scriptExists \in BOOLEAN
  /\ workers = {}
  /\ store = << >>
  /\ alive = {}
  /\ killed = {}
  /\ timers = {}
  /\ stab = {}
  /\ ops = {}
  /\ spawning = 0
  /\ starting = [new |-> 0, old |-> 0]
  /\ snapshot = {}
  /\ daemon = "up"
  /\ conn = NoTraffic
  /\ probe = NoProbing
  /\ watch = NoWatcher
  /\ host = OneDaemon
  /\ inData = FALSE
  /\ ncmd = 0
  /\ nexit = 0
  /\ nscript = 0
  /\ ev = "init"

NextWatch ==
  \/ ncmd < MaxLines /\ CmdStart
  \/ ncmd < MaxLines /\ CmdStop
  \/ \E event \in FileEvents : FileEvent(event)
  \/ BuildExec
  \/ \E err \in BOOLEAN : BuildDone(err)
  \/ \E o \in ops : WatchRestartFinish(o)
  \/ /\ \/ \E o \in ops : OpFinish(o)
        \/ \E c \in alive, code \in ExitCodes, u \in Uptimes : ChildExit(c, code, u)
        \/ \E o \in ops : \E c \in o.wait : Escalate(o, c)
        \/ \E o \in ops : StopTimeout(o)
        \/ \E id \in stab : StabilityFire(id)
        \/ \E t \in timers : RestartTimerFire(t)
     /\ nexit' <= FairExits

SpecWatch == InitWatch /\ [][NextWatch]_vars

\* A crash loop left alone: one start command, then only child exits, restart
\* timers and suspended spawns; no stability timer fires, no operator acts.
NextCrashLoop ==
  \/ ncmd = 0 /\ CmdStart
  \/ \E c \in alive : \E code \in ExitCodes : \E u \in Uptimes : ChildExit(c, code, u)
  \/ \E t \in timers : RestartTimerFire(t)
  \/ SpawnResume

SpecCrashLoop == Init /\ [][NextCrashLoop]_vars

\* every forkChild call of the step returns a child
ForksSucceed ==
  \/ spawning' > spawning
  \/ spawning' = spawning /\ ~scriptExists
  \/ Cardinality(alive' \ alive) = InstanceCount

\* a host on which no fork fails: a registered worker is Stopped only when a
\* stop() has returned
NextForks ==
  \/ ncmd < MaxCmds /\ CmdStart /\ (ev' = "startIgnored" \/ ForksSucceed)
  \/ ncmd < MaxCmds /\ CmdStop
  \/ ncmd < MaxCmds /\ CmdRestart
  \/ \E o \in ops : OpFinish(o)
  \/ \E c \in alive, code \in ExitCodes, u \in Uptimes :
       ChildExit(c, code, u) /\ (Respawns(Cur, c) => ForksSucceed)
  \/ \E o \in ops : \E c \in o.wait : Escalate(o, c)
  \/ \E o \in ops : StopTimeout(o)
  \/ \E id \in stab : StabilityFire(id)
  \/ \E t \in timers : RestartTimerFire(t) /\ ForksSucceed
  \/ SpawnResume /\ ForksSucceed

SpecForks == Init /\ [][NextForks]_vars

\* start(cfg), delete(name), start(cfg), each sent when the one before it
\* has completed; the only children that exit are those the delete signalled
NextRoundTrip ==
  \/ ncmd = 0 /\ CmdStart /\ ForksSucceed
  \/ ncmd = 1 /\ starting["new"] = 0 /\ CmdDelete
  \/ ncmd = 2 /\ ops = {} /\ CmdStart /\ ForksSucceed
  \/ \E o \in ops : OpFinish(o)
  \/ ncmd >= 2 /\ \E c \in alive, code \in ExitCodes, u \in Uptimes :
                    ChildExit(c, code, u)
  \/ \E o \in ops : \E c \in o.wait : Escalate(o, c)
  \/ \E o \in ops : StopTimeout(o)
  \/ SpawnResume /\ ForksSucceed

SpecRoundTrip == Init /\ [][NextRoundTrip]_vars

\* a client that only starts and deletes the worker
NextStartDelete ==
  \/ ncmd < MaxStartDelete /\ CmdStart
  \/ ncmd < MaxStartDelete /\ CmdDelete
  \/ \E o \in ops : OpFinish(o)
  \/ \E c \in alive, code \in ExitCodes, u \in Uptimes : ChildExit(c, code, u)
  \/ \E o \in ops : \E c \in o.wait : Escalate(o, c)
  \/ \E o \in ops : StopTimeout(o)
  \/ \E t \in timers : RestartTimerFire(t)
  \/ SpawnResume
  \/ ScriptChange

SpecStartDelete == Init /\ [][NextStartDelete]_vars

\* the daemon as one client connection sees it: every line the client sends
\* until it disconnects, with at most FairExits child exits; every timer
\* and awaited call eventually runs
NextIPC ==
  \/ /\ conn.open /\ ncmd < MaxLines
     /\ \/ LineInvalid
        \/ CmdPing
        \/ CmdList
        \/ CmdUnknown
        \/ CmdGetStore
        \/ \E named \in BOOLEAN : CmdLogs(named)
        \/ CmdStart
        \/ CmdStop
        \/ CmdRestart
        \/ CmdDelete
        \/ CmdStats
  \/ Disconnect
  \/ /\ \/ \E o \in ops : OpFinish(o)
        \/ \E c \in alive, code \in ExitCodes, u \in Uptimes : ChildExit(c, code, u)
        \/ \E o \in ops : \E c \in o.wait : Escalate(o, c)
        \/ \E o \in ops : StopTimeout(o)
        \/ \E id \in stab : StabilityFire(id)
        \/ \E t \in timers : RestartTimerFire(t)
        \/ SpawnResume
     /\ nexit' <= FairExits

SpecIPC == Init /\ [][NextIPC]_vars /\ Fairness

\* the bytes of one connection: what the client writes and how the socket
\* delivers it, in chunks of any size
NextFraming ==
  \/ \E ch \in Chars : Send(ch)
  \/ \E k \in 1..MaxBytes : Data(k)

SpecFraming == Init /\ [][NextFraming]_vars

\* a daemon that is shut down gracefully and booted again; the operator
\* sends commands only before the shutdown, and the restored workers fork
\* their children
NextReboot ==
  \/ daemon = "up" /\ ncmd < MaxBeforeShutdown /\ CmdStart
  \/ daemon = "up" /\ ncmd < MaxBeforeShutdown /\ CmdStop
  \/ daemon = "up" /\ ncmd < MaxBeforeShutdown /\ CmdDelete
  \/ \E o \in ops : OpFinish(o)
  \/ \E c \in alive, code \in ExitCodes, u \in Uptimes : ChildExit(c, code, u)
  \/ \E o \in ops : \E c \in o.wait : Escalate(o, c)
  \/ \E o \in ops : StopTimeout(o)
  \/ \E t \in timers : RestartTimerFire(t)
  \/ SpawnResume /\ (daemon = "restored" => ForksSucceed)
  \/ Shutdown
  \/ \E o \in ops : Exit(o)
  \/ Boot /\ (snapshot # {} => ForksSucceed)
  \/ ScriptChange

\* freePort returns: the suspended spawnAll of a restored worker resumes
SpecReboot ==
  /\ Init /\ [][NextReboot]_vars
  /\ WF_vars(SpawnResume /\ (daemon = "restored" => ForksSucceed))

(* ------------------------- state observations ------------------------- *)
Rec        == mp(Cur)
Registered == Name \in workers
Children   == Rec.children
Status     == Rec.status
IsExit(e)  == e \in {"exit0", "exitFail", "exitNull"}

\* the events of a "start" command entering ProcessManager.start
StartEvents == {"start", "startPending", "resume", "resumePending", "startIgnored"}

\* a variant of handleMessage whose default case returns without a reply
ReplySilentDefault(e) ==
  CASE e \in {"start", "resume", "startIgnored", "startReturn", "stopUnknown",
              "stopEarly", "stopReturn", "restartUnknown", "restartEarly",
              "restartReturn", "deleteUnknown", "deleteReturn", "stats",
              "statsUnknown", "ping", "list", "logs"} -> "ok"
    [] e \in {"startThrow", "stopThrow", "deleteThrow", "invalidJSON",
              "logsUnknown", "logsNone"} -> "error"
    [] OTHER -> "none"

\* handleMessage's reply to the command that completed with event e:
\* { ok: true, data } after the switch, { ok: false, error } from the catch
Reply(e) ==
  CASE e \in {"start", "resume", "startIgnored", "startReturn", "stopUnknown",
              "stopEarly", "stopReturn", "restartUnknown", "restartEarly",
              "restartReturn", "deleteUnknown", "deleteReturn", "stats",
              "statsUnknown", "ping", "list", "logs"} -> "ok"
    [] e \in {"startThrow", "stopThrow", "deleteThrow", "invalidJSON",
              "unknownCommand", "getStore", "logsUnknown", "logsNone"} -> "error"
    [] OTHER -> "none"

\* the error text of the reply written for event e
ErrorText(e) ==
  CASE e = "invalidJSON" -> "Invalid JSON"
    [] e \in {"unknownCommand", "getStore"} -> "Unknown command"
    [] e = "logsUnknown" -> "Worker not found"
    [] e = "logsNone" -> "No active workers to stream logs from"
    [] OTHER -> "message of the error thrown"

\* the cmd of the line that the response for event e answers
Cmd(e) ==
  CASE e = "ping" -> "ping"
    [] e \in StartEvents \cup {"startReturn", "startThrow"} -> "start"
    [] e \in {"stopUnknown", "stopEarly", "stopReturn", "stopThrow"} -> "stop"
    [] e \in {"restartUnknown", "restartEarly", "restartReturn"} -> "restart"
    [] e \in {"deleteUnknown", "deleteReturn", "deleteThrow"} -> "delete"
    [] e \in {"stats", "statsUnknown"} -> "stats"
    [] e = "list" -> "list"
    [] e \in {"logs", "logsUnknown", "logsNone"} -> "logs"
    [] e = "getStore" -> "get-store"
    [] OTHER -> "none"

TypeOK ==
  /\ workers \subseteq {Name}
  /\ DOMAIN store \subseteq {Name}
  /\ spawning \in 0..MaxSpawning
  /\ starting \in [{"new", "old"} -> 0..MaxSpawning]
  /\ starting["new"] + starting["old"] <= spawning
  /\ snapshot \subseteq
       {stringify(c) : c \in Configs \cup ProbeConfigs \cup WatchConfigs}
  /\ Cardinality(probe.timers) <= MaxProbes
  /\ probe.n \in 0..MaxTicks
  /\ watch.n \in 0..MaxFileEvents
  /\ daemon \in {"up", "shutdown", "down", "restored"}
  /\ host.sock \in 0..MaxDaemons /\ host.pidFile \in 0..MaxDaemons
  /\ killed \subseteq alive
  /\ Registered => Rec.own = Fields

(* ------------------------- daemon processes ---------------------------- *)
\* no daemon has been started, neither file exists, every client is about to
\* call ensureDaemon
NoDaemon ==
  [proc |-> [d \in 1..MaxDaemons |-> "none"], sock |-> 0, pidFile |-> 0,
   client |-> [c \in 1..MaxClients |-> "idle"]]

\* daemon d listens on the socket that the socket file names
Reachable(h, d) == h.proc[d] = "serving" /\ h.sock = d

\* ZPMClient.isDaemonRunning: the ping sent to the socket path is answered
isDaemonRunning(h) == \E d \in 1..MaxDaemons : Reachable(h, d)

\* a step of a client or of a daemon's boot: the supervisor state stays
HostStep(h) ==
  /\ host' = h
  /\ UNCHANGED <<cfg, scriptExists, workers, store, alive, killed, timers,
                 stab, ops, spawning, starting, snapshot, daemon, conn,
                 probe, watch, inData, ncmd, nexit, nscript, ev>>

\* a new daemon process at the start of main()
spawnDaemon(h) ==
  LET d == CHOOSE e \in 1..MaxDaemons :
             h.proc[e] = "none" /\ \A f \in 1..(e - 1) : h.proc[f] # "none"
  IN  [h EXCEPT !.proc[d] = "main"]

\* ZPMClient.ensureDaemon up to the end of `await this.isDaemonRunning()`
EnsureCheck(c) ==
  /\ host.client[c] = "idle"
  /\ HostStep([host EXCEPT !.client[c] =
                 IF isDaemonRunning(host) THEN "done" ELSE "spawn"])

\* ZPMClient.ensureDaemon after the await: spawn(daemonScript, detached)
EnsureSpawn(c) ==
  /\ host.client[c] = "spawn"
  /\ \E d \in 1..MaxDaemons : host.proc[d] = "none"
  /\ HostStep([spawnDaemon(host) EXCEPT !.client[c] = "wait"])

\* ZPMClient.waitForDaemon: a poll is answered, or the 8 s have passed
WaitForDaemon(c) ==
  /\ host.client[c] = "wait"
  /\ HostStep([host EXCEPT !.client[c] =
                 IF isDaemonRunning(host) THEN "done" ELSE "failed"])

\* `node daemon.js` run directly
RunDaemon ==
  /\ \E d \in 1..MaxDaemons : host.proc[d] = "none"
  /\ HostStep(spawnDaemon(host))

\* main(): writePid()
WritePid(d) ==
  /\ host.proc[d] = "main"
  /\ HostStep([host EXCEPT !.pidFile = d, !.proc[d] = "ipc"])

\* startIPCServer: fs.existsSync(sockPath)
StartIPCExists(d) ==
  /\ host.proc[d] = "ipc"
  /\ HostStep([host EXCEPT !.proc[d] =
                 IF host.sock # 0 THEN "unlink" ELSE "listen"])

\* startIPCServer: fs.unlinkSync(sockPath); when the file has gone meanwhile
\* it throws, main() rejects and the process exits
StartIPCUnlink(d) ==
  /\ host.proc[d] = "unlink"
  /\ HostStep(IF host.sock = 0
              THEN [host EXCEPT !.proc[d] = "dead"]
              ELSE [host EXCEPT !.sock = 0, !.proc[d] = "listen"])

\* startIPCServer: server.listen(sockPath); when the path exists the server
\* emits "error", which is logged, and the daemon stays alive without a socket
StartIPCListen(d) ==
  /\ host.proc[d] = "listen"
  /\ HostStep(IF host.sock # 0
              THEN [host EXCEPT !.proc[d] = "deaf"]
              ELSE [host EXCEPT !.sock = d, !.proc[d] = "serving"])

\* a daemon process is killed with SIGKILL: its files stay behind
DaemonKilled(d) ==
  /\ host.proc[d] \notin {"none", "dead"}
  /\ HostStep([host EXCEPT !.proc[d] = "dead"])

InitDaemons ==
  /\ cfg \in Configs
  /\ scriptExists \in BOOLEAN
  /\ workers = {}
  /\ store = << >>
  /\ alive = {}
  /\ killed = {}
  /\ timers = {}
  /\ stab = {}
  /\ ops = {}
  /\ spawning = 0
  /\ starting = [new |-> 0, old |-> 0]
  /\ snapshot = {}
  /\ daemon = "up"
  /\ conn = NoTraffic
  /\ probe = NoProbing
  /\ watch = NoWatcher
  /\ host = NoDaemon
  /\ inData = FALSE
  /\ ncmd = 0
  /\ nexit = 0
  /\ nscript = 0
  /\ ev = "init"

\* clients that call ensureDaemon, daemons run by hand, and each daemon's boot
NextDaemons ==
  \/ \E c \in 1..MaxClients : EnsureCheck(c)
  \/ \E c \in 1..MaxClients : EnsureSpawn(c)
  \/ \E c \in 1..MaxClients : WaitForDaemon(c)
  \/ RunDaemon
  \/ \E d \in 1..MaxDaemons : WritePid(d)
  \/ \E d \in 1..MaxDaemons : StartIPCExists(d)
  \/ \E d \in 1..MaxDaemons : StartIPCUnlink(d)
  \/ \E d \in 1..MaxDaemons : StartIPCListen(d)
  \/ \E d \in 1..MaxDaemons : DaemonKilled(d)

SpecDaemons == InitDaemons /\ [][NextDaemons]_vars

(* ---------------------------- properties ------------------------------ *)
RECURSIVE Pow2(_)

\* children the daemon has neither exited nor signalled with SIGKILL
Live == alive \ killed

\* the restart timer a step has just scheduled for the backoff in force
Scheduled ==
  \E t \in timers' \ timers :
    t.backoff = Rec.backoffTime /\ Rec'.restartTimer = t.id

\* child c belongs to a Running worker and its exit would be unintentional:
\* no restart() is in progress and the daemon has not killed c
RunningChild(c) ==
  Registered /\ Status = Running /\ ~Rec.isRestarting /\ c \in Children /\ c \notin killed

\* C1: every child process that has been spawned and has not yet exited is a
\* member of the worker's children list.
NoOrphanedChildren == Live \subseteq Children

\* the last child of a worker has just exited during a restart() that was
\* invoked while the worker was Running; the script exists and stays, and the
\* operator sends nothing more
LastChildExited ==
  /\ IsExit(ev)
  /\ \E o \in ops : o.kind = "restart" /\ o.pre = Running /\ ~o.early /\ o.wait = {}
  /\ Registered /\ alive = {}
  /\ scriptExists /\ nscript = MaxScript
  /\ ncmd = MaxCmds

\* C2: once the last child of a worker has exited during a restart() that was
\* invoked while the worker was Running with a child, and the script exists,
\* the worker eventually is Running again with new children.
RestartRespawns ==
  LastChildExited ~> (Registered /\ Status = Running /\ Children # {})

\* C3: whenever a stop() call returns, the worker's status is Stopped and its
\* children list is empty, whatever the status was when stop() was called.
StopLeavesStopped ==
  (Registered /\ ev \in {"stopReturn", "stopEarly"})
    => (Status = Stopped /\ Children = {})

\* a stop() call (the operator's, or the one delete() makes) is suspended
StopPending == \E o \in ops : o.kind \in {"stop", "delete"}

\* C4: every stop() call that is waiting for its kills eventually returns,
\* whether or not any child ever delivers an exit event, and a stop() that
\* has waited leaves the state forced to Stopped with no children.
StopReturns ==
  /\ StopPending ~> ~StopPending
  /\ [](ev = "stopReturn" => (Status = Stopped /\ Children = {}))

\* a stop() has returned by its safety timeout while the child it was
\* waiting for is still alive
StopReturnedByTimeout ==
  /\ ev = "stopReturn"
  /\ cfg.killTimeout + KILL_SETTLE > STOP_TIMEOUT
  /\ Registered /\ Status = Stopped
  /\ Live # {}

\* a step has called spawnAll with the script present: it waits for the port,
\* or it has forked new children, or fork() gave none
Respawned ==
  IF cfg.port THEN spawning' = spawning + 1
  ELSE \/ Status' = Running /\ Children' # {} /\ Children' \cap alive = {}
       \/ Status' = Stopped /\ alive' = alive

SignalExitIsCrash ==
  [][ \A c \in alive : \A u \in Uptimes :
        (RunningChild(c) /\ ChildExit(c, NullCode, u))
          => (Status' = Crashed /\ Scheduled)
    ]_vars

Pow2(k) == IF k <= 0 THEN 1 ELSE 2 * Pow2(k - 1)

\* C7: in a crash loop with no stability reset and no operator command, the
\* restart scheduled after k automatic restarts is delayed by
\* min(1000 * 2^k, maxBackoff), and every automatic restart adds exactly one
\* to restartCount.
CrashLoopBackoff ==
  [][ /\ \A t \in timers' \ timers :
           t.backoff = Min(INIT_BACKOFF * Pow2(Rec.restartCount), cfg.maxBackoff)
      /\ \A t \in timers :
           (Registered /\ RestartTimerFire(t))
             => Rec'.restartCount = Rec.restartCount + 1
    ]_vars

\* C8: for every configured maxBackoff, backoffTime never exceeds maxBackoff,
\* and it never decreases except when it is reset to the initial value.
BackoffBounded ==
  [][ Registered' =>
        /\ Rec'.backoffTime <= cfg.maxBackoff
        /\ (Registered /\ Rec'.backoffTime < Rec.backoffTime)
             => Rec'.backoffTime = INIT_BACKOFF
    ]_vars

ChildrenImplyRunning ==
  (Registered /\ Children # {}) => Status \in {Running, Stopping}

\* C11: a worker whose status is Running always has at least one tracked
\* child, whatever code or signal its children exit with (children is empty
\* only in Stopped, Crashed, Errored or Starting).
RunningHasChild ==
  (Registered /\ Status = Running) => Children # {}

\* a command whose ProcessManager call has not returned yet
CommandPending == ops # {} \/ starting["new"] + starting["old"] > 0

\* C12: commands on the same worker are serialized: a command does not begin
\* to take effect (change the registry or the worker's record) until every
\* earlier command has completed.
CommandsSerialized ==
  [][(ncmd' = ncmd + 1 /\ <<workers, store>>' # <<workers, store>>)
       => ~CommandPending]_vars

\* C13: start(config) for a name whose worker is Starting, Running or
\* Stopping is rejected: the command is answered { ok: false, error }.
ActiveStartRejected ==
  [][(/\ ncmd' = ncmd + 1
      /\ ev' \in StartEvents
      /\ Registered /\ Status \in {Starting, Running, Stopping})
       => Reply(ev') = "error"]_vars

\* C14: stop, restart, delete or stats naming an unregistered worker is
\* answered { ok: false, error }, never success, and changes neither the
\* registry nor the store.
UnknownWorkerReported ==
  [][(/\ ncmd' = ncmd + 1
      /\ ev' \notin StartEvents
      /\ ~Registered)
       => Reply(ev') = "error" /\ UNCHANGED <<workers, store>>]_vars

\* C15: when delete(name) returns for a registered worker, whatever its
\* status was, all its children have been drained (none is alive), the name
\* is absent from the registry and the store holds no record for it.
DeleteDrains ==
  ev = "deleteReturn" => (Live = {} /\ ~Registered /\ ~Has(Cur))

\* C16: the registry holds exactly one entry for every accepted name. An
\* accepted start(config) leaves the name registered with one store record:
\* on an unregistered name it adds the entry; on a worker that is Stopped,
\* Crashed or Errored it keeps the entry and runs Worker.start() on the
\* existing Worker, which zeroes the counters, cancels the restart timer the
\* worker holds and, when the script exists and a child is forked (or the
\* port is being freed), leaves the terminal state.
StartRegistersOnce ==
  [][(ncmd' = ncmd + 1 /\ ev' \in StartEvents \ {"startIgnored"}) =>
       /\ workers' = workers \cup {Name}
       /\ DOMAIN store' = {Name}
       /\ Rec'.restartCount = 0 /\ Rec'.backoffTime = INIT_BACKOFF
       /\ ~Rec'.isRestarting
       /\ Registered =>
            /\ workers' = workers
            /\ \A t \in timers' : t.id # Rec.restartTimer
            /\ (scriptExists /\ (cfg.port \/ alive' # alive))
                 => Status' \in {Starting, Running}]_vars

\* a worker that was in a terminal state has been started again and runs
TerminalWorkerResumed ==
  ev = "resume" /\ Registered /\ Status = Running /\ Children # {}

\* what a client can observe of the worker: its registry entry, its store
\* record, status, counters and number of children (not pids or timestamps)
Observable ==
  [registered |-> Registered, recorded |-> Has(Cur), status |-> Status,
   restartCount |-> Rec.restartCount, backoffTime |-> Rec.backoffTime,
   children |-> Cardinality(Children)]

\* a start command has just completed
StartCompleted == ev \in {"start", "startReturn"}

\* C17: start(cfg); delete(name); start(cfg), each run to completion, leaves
\* the same observable state as start(cfg) alone: one registry entry and one
\* store record, the same status, restartCount 0, the initial backoff and the
\* configured number of children.
RoundTripSame ==
  (StartCompleted /\ ncmd \in {1, 3}) =>
    Observable = [registered |-> TRUE, recorded |-> TRUE,
                  status |-> IF scriptExists THEN Running ELSE Errored,
                  restartCount |-> 0, backoffTime |-> INIT_BACKOFF,
                  children |-> IF scriptExists THEN InstanceCount ELSE 0]

\* the second start of the round trip has completed with a running worker
RoundTripDone ==
  StartCompleted /\ ncmd = 3 /\ Status = Running

\* the step is a stop command sent right after a stop() has returned
SecondStopBegins ==
  ev = "stopReturn" /\ ncmd' = ncmd + 1 /\ ev' = "stop"

\* the step is the return of a stop() that found the worker Stopped, with
\* nothing run since the command was read
SecondStopReturns ==
  /\ ev = "stop" /\ ev' = "stopReturn"
  /\ \E o \in ops : o.pre = Stopped /\ ops' = ops \ {o}

\* C18: stop is idempotent: a second stop() issued after a first stop() has
\* completed terminates no process and leaves the worker in exactly the state
\* the first one produced (Stopped, no children, no timers, same counters);
\* only the status passes through Stopping while the call runs.
StopIdempotent ==
  [][/\ SecondStopBegins =>
          /\ Status = Stopped /\ Children = {}
          /\ Rec.restartTimer = NoTimer /\ Rec.stabilityTimer = NoTimer
          /\ store' = [store EXCEPT ![Name].status = Stopping]
          /\ \A o \in ops' \ ops : o.wait = {}
          /\ UNCHANGED <<workers, alive, killed, timers, stab, snapshot>>
     /\ SecondStopReturns =>
          /\ store' = [store EXCEPT ![Name].status = Stopped]
          /\ UNCHANGED <<workers, alive, killed, timers, stab, snapshot>>]_vars

\* a state-changing ProcessManager operation has just returned normally
OperationCompleted ==
  ev \in {"start", "resume", "startReturn", "stopEarly", "stopReturn",
          "restartEarly", "restartReturn", "deleteReturn"}

\* C19: after every completed state-changing operation of the supervisor the
\* snapshot file lists the configurations of exactly the registered workers
\* (configurations only, no runtime state).
SnapshotCurrent ==
  OperationCompleted => snapshot = {stringify(getConfig(w)) : w \in workers}

\* the daemon has just booted and restored a worker whose script exists
RestoredStarted == ev = "boot" /\ Registered /\ scriptExists

Pending ==
  Cardinality({o \in ops : o.kind \in {"stop", "restart", "delete"}})
    + starting["new"] + starting["old"]

\* the number of response objects the step that ended with event e wrote
Written(e) == IF Reply(e) = "none" THEN 0 ELSE 1

\* C21: on a connection that stays open every command line gets exactly one
\* response object, { ok: true, data } or { ok: false, error }: a line either
\* is answered in the step that handles it or becomes one pending call, a
\* pending call writes one response when it completes, nothing else writes
\* one, and every pending call completes.
ExactlyOneResponse ==
  /\ [][conn'.open =>
          Written(ev') + Pending' =
            Pending + (IF ncmd' = ncmd + 1 THEN 1 ELSE 0)]_vars
  /\ (Pending > 0) ~> (Pending = 0)

\* a call that had to wait has been answered on the open connection, after
\* a line that was answered with an error
AnsweredLate ==
  /\ conn.open /\ ncmd = MaxLines /\ Pending = 0
  /\ ev \in {"startReturn", "stopReturn", "restartReturn", "deleteReturn"}

\* C22: a line that is not valid JSON is answered { ok: false, error:
\* "Invalid JSON" }, changes no supervisor state and leaves the connection
\* open; a line that arrives right after it is handled and answered like any
\* other.
InvalidJSONAnswered ==
  [][/\ (ncmd' = ncmd + 1 /\ ev' = "invalidJSON") =>
          /\ Reply(ev') = "error" /\ ErrorText(ev') = "Invalid JSON"
          /\ conn' = conn
          /\ UNCHANGED <<workers, store, alive, killed, timers, stab, ops,
                         spawning, starting, snapshot, daemon>>
     /\ (ncmd' = ncmd + 1 /\ ev = "invalidJSON") =>
          /\ conn.open
          /\ Written(ev') + Pending' = Pending + 1]_vars

\* a line of bad JSON has been answered after a worker was started, and the
\* connection is open for more lines
BadLineAnswered ==
  ev = "invalidJSON" /\ conn.open /\ Registered /\ ncmd = MaxLines

\* C24: once the client of a `logs` subscription has disconnected, no data
\* listener the subscription attached remains on stdout or stderr of a child.
ListenersRemoved ==
  ~conn.open => conn.listeners = {}

\* the socket has just closed with a subscription on a cluster's children
SubscriptionClosed ==
  ev = "close" /\ Cardinality(conn.active) >= 2

\* C26: start() on a worker whose script does not exist leaves the worker
\* Errored, spawns no child, arms no restart timer, stability timer or probe
\* timer, and the start command is answered { ok: true }.
MissingScriptErrored ==
  [][(ncmd' = ncmd + 1 /\ ev' \in {"start", "resume"} /\ ~scriptExists) =>
        /\ Rec'.status = Errored
        /\ Rec'.children = {} /\ alive' = alive
        /\ timers' \subseteq timers /\ Rec'.restartTimer = NoTimer
        /\ stab' \subseteq stab /\ Rec'.stabilityTimer = NoTimer
        /\ probe'.timers \subseteq probe.timers /\ Rec'.probeTimer = NoTimer
        /\ Reply(ev') = "ok"]_vars

\* a worker that ran with its probe has been started again after its script
\* was removed
StartedWithoutScript ==
  /\ ev = "resume" /\ ~scriptExists /\ Rec.status = Errored
  /\ probe.n > 0

\* C27: while a worker with a probe stays Running, failureThreshold dead
\* probe results in a row, with no alive result between them, make the tick
\* reset probeFailures and invoke restart(): the worker is never Running with
\* that many dead results in a row behind it.
ProbeThresholdRestarts ==
  mp(Cur).status = Running => probe.run < cfg.probe.failureThreshold

\* C28: a worker has at most one pending restart timer, one pending
\* stability timer and one active probe interval, and each of them is the
\* one recorded in the worker's state.
TimersRecorded ==
  /\ Cardinality(timers) <= 1
  /\ Cardinality(stab) <= 1
  /\ Cardinality(probe.timers) <= 1
  /\ \A t \in timers : mp(Cur).restartTimer = t.id
  /\ \A id \in stab : mp(Cur).stabilityTimer = id
  /\ \A id \in probe.timers : mp(Cur).probeTimer = id

\* a stop() is suspended at its await
StopInProgress ==
  \E o \in ops : o.kind \in {"stop", "delete", "stopAll"} /\ ~o.early

\* C29: a child exit that arrives while stop() is in progress is taken as
\* intentional whatever its exit code: the child leaves `children`, the
\* status does not become Crashed, no restart is scheduled and no child is
\* spawned.
ExitDuringStopIntentional ==
  [][(StopInProgress /\ nexit' = nexit + 1) =>
        /\ mp(Cur)'.children \cap (alive \ alive') = {}
        /\ mp(Cur)'.status = Crashed => mp(Cur).status = Crashed
        /\ timers' \subseteq timers
        /\ alive' \subseteq alive /\ spawning' <= spawning]_vars

\* a stop() was issued after start() suspended in spawnAll and before the
\* spawn went on: every spawnAll that is suspended belongs to a start(),
\* which left the worker Starting, and the worker is Stopping or Stopped
StoppedWhileSpawning ==
  /\ Registered /\ spawning > 0
  /\ starting["new"] + starting["old"] = spawning
  /\ mp(Cur).status \in {Stopping, Stopped} /\ ~mp(Cur).isRestarting

\* C30: a stop() issued while the worker is Starting with its spawn suspended
\* cancels the spawn: when the spawn goes on it leaves no live child and the
\* worker is not Running.
StopCancelsSpawn ==
  [][(StoppedWhileSpawning /\ spawning' < spawning) =>
        /\ mp(Cur)'.status # Running
        /\ (alive' \ killed') \subseteq (alive \ killed)]_vars

\* a restart() made while the worker was Crashed is suspended at its await or
\* about to go on, the script exists, and neither the script nor the
\* operator interferes any more
RestartFromCrashed ==
  /\ \E o \in ops : o.kind = "restart" /\ o.pre = Crashed
  /\ Registered
  /\ scriptExists /\ nscript = MaxScript
  /\ ncmd = MaxCmds

\* C31: a restart() issued while the worker is Crashed with its backoff timer
\* pending goes through the restart path: the worker is spawned and reaches
\* Running without a further command.
CrashedRestartRuns ==
  RestartFromCrashed ~> (Registered /\ Status = Running /\ Children # {})

\* C32: while the worker is Running, probeFailures is the number of dead
\* probe results received since the most recent alive result, or since the
\* probe was armed or last reached its threshold.
ProbeFailuresCounted ==
  mp(Cur).status = Running => mp(Cur).probeFailures = probe.run

\* C33: an operator start() on a Stopped, Crashed or Errored worker resets
\* restartCount, backoffTime and probeFailures and cancels every pending
\* restart and stability timer before it spawns: after it no restart timer is
\* pending, and no stability timer but the one its own spawn armed.
StartResetsAndCancels ==
  [][(ncmd' = ncmd + 1 /\ ev' \in {"resume", "resumePending"}) =>
        /\ Rec'.restartCount = 0 /\ Rec'.backoffTime = INIT_BACKOFF
        /\ Rec'.probeFailures = 0
        /\ timers' = {}
        /\ stab' \subseteq {Rec'.stabilityTimer}]_vars

\* reload-command executions in flight: handlers that set the latch and
\* are about to call exec, and commands that are running
BuildsInFlight == watch.importing + watch.builds

\* C34: with a reloadCommand at most one reload-command execution is in
\* flight per worker; a file event that arrives while a build is running
\* starts no build and no restart; the latch is released when the build
\* finishes, whether it succeeded or failed.
OneBuildInFlight ==
  /\ [](BuildsInFlight <= 1 /\ (watch.isBuilding <=> BuildsInFlight = 1))
  /\ [][/\ (BuildsInFlight = 1 /\ watch'.n = watch.n + 1) =>
            /\ BuildsInFlight' = 1
            /\ UNCHANGED <<store, ops, alive, timers, stab, spawning>>
        /\ watch'.builds < watch.builds => ~watch'.isBuilding]_vars

\* a file event has been dropped while the reload command was running
EventDuringBuild ==
  ev = "fileIgnored" /\ watch.builds = 1 /\ Registered /\ Status = Running

\* C35: Stopped is stable: once stop() has returned with status Stopped
\* (where no fork fails, the only way a registered worker is Stopped), the
\* worker stays Stopped with no children and gets no new child in every step
\* that is not an operator command.
StoppedStable ==
  [][(Registered /\ Status = Stopped /\ Children = {} /\ ~StopInProgress
        /\ ncmd' = ncmd) =>
       /\ Registered' /\ Status' = Stopped /\ Children' = {}
       /\ alive' \subseteq alive]_vars

\* C36: Stopping is transient: a worker whose status is Stopping, whatever
\* the status stop() or restart() found, eventually is Stopped or Running
\* (or deleted) without a further operator command.
StoppingTransient ==
  (Registered /\ Status = Stopping /\ ncmd = MaxCmds /\ nscript = MaxScript)
    ~> (~Registered \/ Status \in {Stopped, Running})

\* C37: the stability mechanism resets restartCount and backoffTime only
\* through the timer armed when the worker last entered Running: a stability
\* timer of an earlier Running period never changes them.
StabilityOfThisRun ==
  [][\A id \in stab :
       (/\ StabilityFire(id)
        /\ Registered
        /\ \/ Rec'.restartCount # Rec.restartCount
           \/ Rec'.backoffTime # Rec.backoffTime)
         => id = Rec.stabilityTimer]_vars

\* C38: the children of a worker that are alive never outnumber its
\* instance count (1 in fork mode, cfg.instances in cluster mode).
LiveChildrenBounded == Cardinality(alive) <= InstanceCount

\* no command is suspended and no callback is outstanding: no pending await,
\* spawn, timer, probe or build, and no child whose exit is still to come
Quiescent ==
  /\ ops = {} /\ spawning = 0 /\ ~inData
  /\ timers = {} /\ stab = {} /\ alive = {}
  /\ probe.timers = {} /\ probe.ticks = {}
  /\ ~watch.isBuilding /\ watch.importing = 0

\* C39: once every in-flight command and callback has completed, the names
\* that have a store record are the names in the registry.
StoreMatchesRegistry == Quiescent => (Has(Cur) <=> Registered)

\* C40: at most one daemon serves the control socket, and a daemon that is
\* running and reachable is not displaced: as long as it runs, the socket
\* file stays the one it bound and the PID file keeps its pid.
DaemonNotDisplaced ==
  /\ [](Cardinality({d \in 1..MaxDaemons : host.proc[d] = "serving"}) <= 1)
  /\ [][\A d \in 1..MaxDaemons :
          (Reachable(host, d) /\ host'.proc[d] = "serving") =>
             /\ Reachable(host', d)
             /\ host.pidFile = d => host'.pidFile = d]_vars

\* the commands the protocol documents
Commands ==
  {"ping", "start", "stop", "restart", "delete", "stats", "list", "logs",
   "get-store"}

\* C25: every documented command is accepted, none is answered with
\* "Unknown command", and `get-store` is answered { ok: true, data }.
CommandsAccepted ==
  /\ (Cmd(ev) \in Commands /\ Reply(ev) = "error") =>
        ErrorText(ev) # "Unknown command"
  /\ ev = "getStore" => Reply(ev) = "ok"

\* the lines a data handler would handle if the bytes b came as one chunk
WholeLines(b) ==
  LET segs == split(toString(b))
  IN  SelectSeq(SubSeq(segs, 1, Len(segs) - 1), NotBlank)

\* C23: framing is independent of chunking: the lines handled for a
\* connection are the newline-terminated lines of the concatenated bytes
\* received, however the bytes were split into chunks.
FramingIndependent ==
  conn.lines = WholeLines(conn.got)

====
